---- MODULE Spec2Model ----
(***************************************************************************)
(* Model of mower_mqtt_bridge.py: the REST transport and token exchange of *)
(* CloudEndpointAPI, the cloud broker session of CloudMQTTClient with its  *)
(* token refresh supervisor thread, the local broker session of            *)
(* PrivateMQTTClient, and the startup / shutdown sequence of main().       *)
(*                                                                         *)
(* The specifications share the variables:                                 *)
(*   Spec        the threads of the process (main, supervisor, cloud       *)
(*               network loop) around TokenState and the cloud session     *)
(*   SpecRequest CloudEndpointAPI.request() applied to every HTTP outcome  *)
(*   SpecRelay   the on_connect / on_message callbacks of both sessions    *)
(*   SpecLocal   the local session from its first connect to the end of    *)
(*               the process, with the local broker's retained             *)
(*               availability value                                        *)
(*   SpecFleet   CloudEndpointAPI.get_mowers() applied to device lists and *)
(*               product catalogs                                          *)
(*   SpecLive    Spec under fair scheduling of the threads                 *)
(*   SpecSup     start_token_auto_refresh() / stop_token_auto_refresh()    *)
(*               called in any order once authenticate() has returned      *)
(*   SpecSession both sessions through connection loss and reconnect       *)
(*   SpecMonitor main()'s monitoring loop beside both sessions             *)
(***************************************************************************)
EXTENDS Integers, Sequences, FiniteSets, TLC

(***************************************************************************)
(* Program constants                                                       *)
(***************************************************************************)
QOS_FLAG == 1
NUM_RETRIES == 5
MAX_BACKOFF == 120
BACKOFF_FACTOR == 3
\* the disconnect reason on_disconnect() tests for
RC_CRED == 7

(***************************************************************************)
(* Bounds of the model                                                     *)
(***************************************************************************)
\* last instant of the clock (the clock starts at 1)
MaxTime == 2
\* largest expires_in a token response carries
MaxExpiresIn == 1
\* number of token responses the identity endpoint issues
MaxIssue == 3
\* number of disconnects the cloud broker causes
MaxDisc == 1
\* number of mowers of the account
NumMowers == 2
\* number of messages the two brokers deliver to the bridge
MaxMsgs == 2
\* number of times the local session connects
MaxLocalConn == 2
\* length of the device list, and of the product catalog
MaxFleet == 2
\* number of product identifiers
MaxProductId == 2
\* number of calls of start_token_auto_refresh()
MaxStarts == 3

\* Python's None, for a token field
None == 0

VARIABLES
    now,                \* time.time(), whole seconds
    proc,               \* the process: "running", "exit0", "exit1"
    pc,                 \* position of each thread
    api,                \* CloudMQTTClient.api is set
    access_token,       \* CloudEndpointAPI.access_token
    refresh_token,      \* CloudEndpointAPI.refresh_token
    token_expire,       \* CloudEndpointAPI.token_expire
    expire_from,        \* the token response token_expire was computed from
    response,           \* get_token's local `response`, per thread
    token_refresh_stop, \* CloudMQTTClient.token_refresh_stop (the Event)
    client,             \* CloudMQTTClient.client is set
    username,           \* the username set on the cloud mqtt client
    cloudState,         \* state of the cloud session's transport
    disconnecting,      \* client.disconnect() was called on the cloud client
    rc,                 \* on_disconnect's argument rc
    attempt,            \* last CONNECT sent: the username used, and the
                        \* access token and its expiry at that moment
    issued,             \* token responses issued so far
    discs,              \* broker disconnects so far
    gen,                \* number of completed get_token calls
    userExp,            \* token_expire when username was derived
    obs,                \* per thread: gen observed expired by its check
    pre,                \* per thread: TokenState when its refresh began
    refreshes,          \* per gen: refresh exchanges completed for it
    reconnects,         \* per gen: forced reconnects issued for it
    fatalHttp,          \* a request() met a non-504 HTTP error status
    mowers,             \* CloudMQTTClient.mowers: the fleet, once fetched
    cloud_subs,         \* the cloud session's subscriptions on its current
                        \* connection
    privateLoop,        \* the local client's network thread
    starts,             \* per call of start_token_auto_refresh() so far:
                        \* it started a thread
    unreferenced,       \* live supervisor threads token_refresh_thread no
                        \* longer refers to
    last_state_client_connected, \* main()'s dict of that name, per broker
    connections,        \* main()'s dict of that name at the latest poll
    monitor_log,        \* the monitoring loop's log entries, in order
    privateState,       \* state of the local session's transport
    private_subs,       \* the local session's subscriptions on its current
                        \* connection
    auto_discover_sent, \* PrivateMQTTClient.auto_discover_sent
    discoveries,        \* send_discovery() calls so far
    received,           \* messages delivered to either on_message, in order
    private_published,  \* publish() calls made on the local client, in order
    cloud_published,    \* publish() calls made on the cloud client, in order
    retained,           \* the local broker's retained availability value
    reqIn,              \* SpecRequest: the HTTP exchange given to request()
    reqOut,             \* SpecRequest: what request() did with it
    fleetIn,            \* SpecFleet: the exchanges get_mowers() meets
    fleetOut            \* SpecFleet: what get_mowers() did with them

\* the variables of the request() specification
reqVars == <<reqIn, reqOut>>
\* the variables of the relay
relayVars == <<privateState, private_subs, auto_discover_sent, discoveries,
               received, private_published, cloud_published, retained>>
\* the variables of main()'s monitoring loop
monVars == <<last_state_client_connected, connections, monitor_log>>
\* the variables of the get_mowers() specification
fleetVars == <<fleetIn, fleetOut>>

vars == <<now, proc, pc, api, access_token, refresh_token, token_expire,
          expire_from, starts, unreferenced, monVars, response, token_refresh_stop, client, username, cloudState,
          disconnecting, rc, attempt, issued, discs, gen, userExp,
          obs, pre, refreshes, reconnects, fatalHttp, mowers, cloud_subs,
          privateLoop, reqVars, relayVars, fleetVars>>

Threads == {"main", "sup", "net"}
\* the keys of main()'s `connections` dict, in its order
Brokers == {"cloud", "private"}
\* the threads that run token_refresh()
Refreshers == {"sup", "net"}

(***************************************************************************)
(* CloudEndpointAPI.request                                                *)
(***************************************************************************)
\* the HTTP statuses the identity endpoint answers with
Statuses == {200, 401, 504}

\* response.raise_for_status(): HTTPError for a 4xx or 5xx status
raise_for_status(status) == status >= 400 /\ status < 600

RECURSIVE pow2(_)
pow2(n) == IF n = 0 THEN 1 ELSE 2 * pow2(n - 1)

\* backoff(retry): the seconds slept, counted in half seconds, because
\* BACKOFF_FACTOR * 2 ** (retry - 1) is 1.5 for retry = 0
backoff(retry) ==
    LET val2 == BACKOFF_FACTOR * pow2(retry)
    IN  IF val2 <= 2 * MAX_BACKOFF THEN val2 ELSE 2 * MAX_BACKOFF

\* An HTTP exchange as request() meets it: the endpoint answers the first
\* `timeouts` attempts with 504 Gateway Timeout, and every later attempt
\* with `status` and the JSON body `json`, or (exc) the transport raises
\* an exception that is no HTTPError.
answer(x, retry) ==
    IF retry < x.timeouts
    THEN [exc |-> FALSE, status |-> 504]
    ELSE [exc |-> x.exc, status |-> x.status]

\* One pass of the body of `for retry in range(NUM_RETRIES)`, lines 116-137.
\*   kind      "return" | "exit" | "raise", or "next" when the pass ends
\*             without leaving the loop
\*   has_json  the returned value is the response's JSON body (else None)
\*   slept     half seconds slept in backoff()
request_body(x, retry) ==
    LET a == answer(x, retry) IN
    IF a.exc
    THEN [kind |-> "raise", has_json |-> FALSE, value |-> x.json,
          slept |-> 0, attempts |-> retry + 1]
    ELSE IF ~raise_for_status(a.status)
    THEN [kind |-> "return", has_json |-> TRUE, value |-> x.json,
          slept |-> 0, attempts |-> retry + 1]
    ELSE IF a.status = 504
    THEN \* line 133: `return` follows backoff(retry)
         [kind |-> "return", has_json |-> FALSE, value |-> x.json,
          slept |-> backoff(retry), attempts |-> retry + 1]
    ELSE \* line 137: sys.exit(1)
         [kind |-> "exit", has_json |-> FALSE, value |-> x.json,
          slept |-> 0, attempts |-> retry + 1]

\* request(), lines 109-140: the loop over range(NUM_RETRIES), and the
\* raise after the loop
RECURSIVE request_from(_, _)
request_from(x, retry) ==
    IF retry >= NUM_RETRIES
    THEN [kind |-> "raise", has_json |-> FALSE, value |-> x.json,
          slept |-> 0, attempts |-> retry]
    ELSE LET r == request_body(x, retry)
         IN  IF r.kind = "next" THEN request_from(x, retry + 1) ELSE r

request(x) == request_from(x, 0)

(***************************************************************************)
(* CloudMQTTClient.set_username_pw: the credential derived from a token    *)
(***************************************************************************)
\* the access token the identity endpoint issues in its k-th token
\* response: a JWT, three parts separated by "."
Jwt(k) == <<"h", "_", ".", "p", "-", ToString(k), ".", "s", "_", "-">>

\* str.translate(str.maketrans("_-", "/+"))
translate(s) ==
    [i \in 1..Len(s) |-> IF s[i] = "_" THEN "/"
                         ELSE IF s[i] = "-" THEN "+" ELSE s[i]]

\* str.split(".")
RECURSIVE split(_)
split(s) ==
    IF \A i \in 1..Len(s) : s[i] # "."
    THEN <<s>>
    ELSE LET k == CHOOSE i \in 1..Len(s) :
                      s[i] = "." /\ \A j \in 1..(i - 1) : s[j] # "."
         IN  <<SubSeq(s, 1, k - 1)>> \o split(SubSeq(s, k + 1, Len(s)))

\* urllib.parse.quote with its default safe="/": letters, digits, "_.-~"
\* and "/" are kept, any other character is percent-encoded
RECURSIVE quote(_)
quote(s) ==
    IF s = <<>> THEN <<>>
    ELSE (IF Head(s) = "+" THEN <<"%", "2", "B">> ELSE <<Head(s)>>)
         \o quote(Tail(s))

\* the username of line 264, for the token with number k
Username(k) ==
    LET token_parts == split(translate(Jwt(k)))
    IN  <<"bot?jwt=">> \o quote(token_parts[1]) \o <<".">>
        \o quote(token_parts[2])
        \o <<"&x-amz-customauthorizer-name=''&x-amz-customauthorizer-signature=">>
        \o quote(token_parts[3])

\* the username before username_pw_set was ever called
NoUser == <<>>

(***************************************************************************)
(* The identity endpoint                                                   *)
(***************************************************************************)
\* the JSON bodies of the k-th token response: either token field may be
\* missing (response.get gives None)
TokenResponses(k) ==
    {[access_token |-> a, refresh_token |-> r, expires_in |-> e] :
        a \in {None, k}, r \in {None, k}, e \in 0..MaxExpiresIn}

NoResponse == [access_token |-> None, refresh_token |-> None, expires_in |-> 0]

\* what the k-th token exchange can end in
HttpOutcomes(k) ==
    {[exc |-> TRUE, status |-> 0, json |-> NoResponse, timeouts |-> 0]}
    \cup {[exc |-> FALSE, status |-> st, json |-> NoResponse, timeouts |-> 0] :
            st \in Statuses \ {200}}
    \cup {[exc |-> FALSE, status |-> 200, json |-> j, timeouts |-> 0] :
            j \in TokenResponses(k)}

\* CloudEndpointAPI.is_token_expired
is_token_expired == now >= token_expire

TokenState == <<access_token, refresh_token, token_expire>>

(***************************************************************************)
(* Control flow shared by the threads                                      *)
(***************************************************************************)
\* An exception (a subclass of Exception) leaves the call made by thread t:
\* token_refresh() catches it (line 348); in the main thread nothing does
\* and the interpreter ends the process with status 1.
pcRaise(t) == IF t = "main" THEN pc ELSE [pc EXCEPT ![t] = "tr_except"]
procRaise(t) == IF t = "main" THEN "exit1" ELSE proc

\* sys.exit(1) raises SystemExit, which is no Exception: line 348 lets it
\* pass.  In the main thread it ends the process with status 1; in any
\* other thread it ends that thread alone, silently.
pcExit(t) == IF t = "main" THEN pc ELSE [pc EXCEPT ![t] = "dead"]
procExit(t) == IF t = "main" THEN "exit1" ELSE proc

\* where get_token() returns to: authenticate() line 284, or
\* token_refresh() line 346
afterGetToken(t) == IF t = "main" THEN "m_start_sup" ELSE "tr_setpw"

\* where token_refresh() returns to: token_refresh_loop's sleep, or the
\* end of on_disconnect
afterRefresh(t) == IF t = "sup" THEN "sleep" ELSE "d_return"

\* the locals of thread t's get_token() / token_refresh() calls, emptied
\* when the call is over
clearResponse(t) == [response EXCEPT ![t] = NoResponse]
clearObs(t) == IF t \in Refreshers THEN [obs EXCEPT ![t] = 0] ELSE obs
clearPre(t) ==
    IF t \in Refreshers THEN [pre EXCEPT ![t] = <<None, None, 0>>] ELSE pre

\* the transport opens a new connection and sends CONNECT with the username
\* the client holds; nothing is subscribed to on the new connection yet
sendConnect ==
    /\ cloudState' = "Connecting"
    /\ cloud_subs' = {}
    /\ attempt' = [user |-> username, token |-> access_token, exp |-> userExp]

(***************************************************************************)
(* CloudEndpointAPI.get_token, run by thread t                             *)
(***************************************************************************)
\* lines 144-156: the exchange, and the assignment of access_token
GetTokenRequest(t) ==
    /\ proc = "running" /\ pc[t] = "gt_request"
    /\ \E x \in HttpOutcomes(issued + 1) :
         LET r == request(x) IN
         /\ x.status = 200 => issued < MaxIssue
         /\ IF r.kind = "return" /\ r.has_json
            THEN /\ access_token' = r.value.access_token
                 /\ response' = [response EXCEPT ![t] = r.value]
                 /\ issued' = issued + 1
                 /\ pc' = [pc EXCEPT ![t] = "gt_157"]
                 /\ UNCHANGED <<proc, fatalHttp, obs, pre>>
            ELSE IF r.kind = "exit"
            THEN /\ pc' = pcExit(t) /\ proc' = procExit(t)
                 /\ fatalHttp' = TRUE
                 /\ obs' = clearObs(t) /\ pre' = clearPre(t)
                 /\ UNCHANGED <<access_token, response, issued>>
            ELSE \* an exception of requests, or None.get(...) after a 504
                 /\ pc' = pcRaise(t) /\ proc' = procRaise(t)
                 /\ obs' = clearObs(t) /\ pre' = clearPre(t)
                 /\ UNCHANGED <<access_token, response, issued, fatalHttp>>
    /\ UNCHANGED <<now, expire_from, starts, unreferenced, monVars, api,
                   refresh_token, token_expire, token_refresh_stop,
                   client, username, cloudState, disconnecting, rc,
                   attempt, discs, gen, userExp, refreshes, reconnects,
                   mowers, cloud_subs, privateLoop, reqVars, fleetVars,
                   relayVars>>

\* line 157
GetTokenRefreshField(t) ==
    /\ proc = "running" /\ pc[t] = "gt_157"
    /\ refresh_token' = response[t].refresh_token
    /\ pc' = [pc EXCEPT ![t] = "gt_159"]
    /\ UNCHANGED <<now, proc, expire_from, starts, unreferenced, monVars,
                   api, access_token, token_expire, response,
                   token_refresh_stop, client, username, cloudState,
                   disconnecting, rc, attempt, issued, discs, gen,
                   userExp, obs, pre, refreshes, reconnects, fatalHttp,
                   mowers, cloud_subs, privateLoop, reqVars, fleetVars,
                   relayVars>>

\* lines 159-165: the check of both fields, then token_expire
GetTokenFinish(t) ==
    /\ proc = "running" /\ pc[t] = "gt_159"
    /\ IF access_token = None \/ refresh_token = None
       THEN /\ pc' = pcRaise(t) /\ proc' = procRaise(t)
            /\ obs' = clearObs(t)
            /\ UNCHANGED <<token_expire, expire_from, gen, refreshes>>
       ELSE /\ token_expire' = now + response[t].expires_in
            /\ expire_from' = response[t].access_token
            /\ gen' = gen + 1
            /\ refreshes' = IF t = "main" THEN refreshes
                            ELSE [refreshes EXCEPT ![obs[t]] = @ + 1]
            /\ pc' = [pc EXCEPT ![t] = afterGetToken(t)]
            /\ UNCHANGED <<proc, obs>>
    /\ response' = clearResponse(t)
    /\ pre' = clearPre(t)
    /\ UNCHANGED <<now, starts, unreferenced, monVars, api, access_token,
                   refresh_token, token_refresh_stop, client, username,
                   cloudState, disconnecting, rc, attempt, issued, discs,
                   userExp, reconnects, fatalHttp, mowers, cloud_subs,
                   privateLoop, reqVars, fleetVars, relayVars>>

(***************************************************************************)
(* CloudMQTTClient.token_refresh, run by the supervisor thread or, from    *)
(* on_disconnect, by the cloud client's network thread                     *)
(***************************************************************************)
\* line 346: set_username_pw().  None has no translate(), and before
\* connect() self.client is None: both raise AttributeError
TokenRefreshSetUsername(t) ==
    /\ proc = "running" /\ t \in Refreshers /\ pc[t] = "tr_setpw"
    /\ IF access_token = None \/ ~client
       THEN /\ pc' = pcRaise(t)
            /\ obs' = clearObs(t)
            /\ UNCHANGED <<username, userExp>>
       ELSE /\ username' = Username(access_token)
            /\ userExp' = token_expire
            /\ pc' = [pc EXCEPT ![t] = "tr_reconnect"]
            /\ UNCHANGED obs
    /\ UNCHANGED <<now, proc, expire_from, starts, unreferenced, monVars,
                   api, access_token, refresh_token, token_expire,
                   response, token_refresh_stop, client, cloudState,
                   disconnecting, rc, attempt, issued, discs, gen, pre,
                   refreshes, reconnects, fatalHttp, mowers, cloud_subs,
                   privateLoop, reqVars, fleetVars, relayVars>>

\* line 347: client.reconnect() opens the connection in the calling thread
\* and sends CONNECT, or raises OSError
TokenRefreshReconnect(t) ==
    /\ proc = "running" /\ t \in Refreshers /\ pc[t] = "tr_reconnect"
    /\ \/ /\ sendConnect
          /\ disconnecting' = FALSE
          /\ reconnects' = [reconnects EXCEPT ![obs[t]] = @ + 1]
          /\ pc' = [pc EXCEPT ![t] = afterRefresh(t)]
       \/ /\ cloudState' = "Disconnected"
          /\ pc' = pcRaise(t)
          /\ UNCHANGED <<attempt, disconnecting, reconnects, cloud_subs>>
    /\ obs' = clearObs(t)
    /\ UNCHANGED <<now, proc, expire_from, starts, unreferenced, monVars,
                   api, access_token, refresh_token, token_expire,
                   response, token_refresh_stop, client, username, rc,
                   issued, discs, gen, userExp, pre, refreshes, fatalHttp,
                   mowers, privateLoop, reqVars, fleetVars, relayVars>>

\* lines 348-349: the exception is logged, token_refresh() returns
TokenRefreshExcept(t) ==
    /\ proc = "running" /\ t \in Refreshers /\ pc[t] = "tr_except"
    /\ pc' = [pc EXCEPT ![t] = afterRefresh(t)]
    /\ UNCHANGED <<now, proc, expire_from, starts, unreferenced, monVars,
                   api, access_token, refresh_token, token_expire,
                   response, token_refresh_stop, client, username,
                   cloudState, disconnecting, rc, attempt, issued, discs,
                   gen, userExp, obs, pre, refreshes, reconnects,
                   fatalHttp, mowers, cloud_subs, privateLoop, reqVars,
                   fleetVars, relayVars>>

(***************************************************************************)
(* CloudMQTTClient.token_refresh_loop: the supervisor thread               *)
(***************************************************************************)
\* line 336: the loop's test of the cancellation flag
SupervisorLoop ==
    /\ proc = "running" /\ pc["sup"] = "loop"
    /\ pc' = [pc EXCEPT !["sup"] = IF token_refresh_stop THEN "exited"
                                   ELSE "check"]
    /\ UNCHANGED <<now, proc, expire_from, starts, unreferenced, monVars,
                   api, access_token, refresh_token, token_expire,
                   response, token_refresh_stop, client, username,
                   cloudState, disconnecting, rc, attempt, issued, discs,
                   gen, userExp, obs, pre, refreshes, reconnects,
                   fatalHttp, mowers, cloud_subs, privateLoop, reqVars,
                   fleetVars, relayVars>>

\* lines 337-339: refresh when a token exists and is expired
SupervisorCheck ==
    /\ proc = "running" /\ pc["sup"] = "check"
    /\ IF api /\ token_expire # 0 /\ is_token_expired
       THEN /\ pc' = [pc EXCEPT !["sup"] = "gt_request"]
            /\ obs' = [obs EXCEPT !["sup"] = gen]
            /\ pre' = [pre EXCEPT !["sup"] = TokenState]
       ELSE /\ pc' = [pc EXCEPT !["sup"] = "sleep"]
            /\ UNCHANGED <<obs, pre>>
    /\ UNCHANGED <<now, proc, expire_from, starts, unreferenced, monVars,
                   api, access_token, refresh_token, token_expire,
                   response, token_refresh_stop, client, username,
                   cloudState, disconnecting, rc, attempt, issued, discs,
                   gen, userExp, refreshes, reconnects, fatalHttp, mowers,
                   cloud_subs, privateLoop, reqVars, fleetVars, relayVars>>

\* line 340: time.sleep(10) ends
SupervisorWake ==
    /\ proc = "running" /\ pc["sup"] = "sleep"
    /\ pc' = [pc EXCEPT !["sup"] = "loop"]
    /\ UNCHANGED <<now, proc, expire_from, starts, unreferenced, monVars,
                   api, access_token, refresh_token, token_expire,
                   response, token_refresh_stop, client, username,
                   cloudState, disconnecting, rc, attempt, issued, discs,
                   gen, userExp, obs, pre, refreshes, reconnects,
                   fatalHttp, mowers, cloud_subs, privateLoop, reqVars,
                   fleetVars, relayVars>>

(***************************************************************************)
(* The cloud client's network thread (loop_start) and its callbacks        *)
(***************************************************************************)
\* mower["mqtt_topics"]["command_out"] and ["command_in"]
command_out(m) == <<"out", m>>
command_in(m) == <<"in", m>>

\* the smallest element of a set of mowers
first_of(list) == {m \in list : \A n \in list : m <= n}

\* an on_connect that subscribes for both directions of every mower
cloud_subscriptions_both(list) ==
    {[topic |-> command_out(m), qos |-> QOS_FLAG] : m \in list}
    \cup {[topic |-> command_in(m), qos |-> QOS_FLAG] : m \in list}

\* lines 246-248: the subscribe() calls of CloudMQTTClient.on_connect
cloud_subscriptions(list) ==
    {[topic |-> command_out(m), qos |-> QOS_FLAG] : m \in list}

\* an on_connect that subscribes for the first mower alone
private_subscriptions_first(list) ==
    {[topic |-> command_in(m), qos |-> QOS_FLAG] : m \in first_of(list)}

\* lines 372-376: the subscribe() calls of PrivateMQTTClient.on_connect
private_subscriptions(list) ==
    {[topic |-> command_in(m), qos |-> QOS_FLAG] : m \in list}

\* an on_disconnect that refreshes on every rc 7
refresh_on_credential_code == rc = RC_CRED

\* line 270: the test of on_disconnect
refresh_on_disconnect == rc = RC_CRED /\ is_token_expired

\* the thread's first connect after connect_async (lines 313, 317): CONNECT
\* is sent; a failed attempt is tried again by the thread.  When
\* client.disconnect() was called before, the loop ends without connecting.
NetFirstConnect ==
    /\ proc = "running" /\ pc["net"] = "first"
    /\ IF disconnecting
       THEN /\ pc' = [pc EXCEPT !["net"] = "stopped"]
            /\ UNCHANGED <<cloudState, attempt, cloud_subs>>
       ELSE /\ sendConnect
            /\ pc' = [pc EXCEPT !["net"] = "loop"]
    /\ UNCHANGED <<now, proc, expire_from, starts, unreferenced, monVars,
                   api, access_token, refresh_token, token_expire,
                   response, token_refresh_stop, client, username,
                   disconnecting, rc, issued, discs, gen, userExp, obs,
                   pre, refreshes, reconnects, fatalHttp, mowers,
                   privateLoop, reqVars, fleetVars, relayVars>>

\* CloudMQTTClient.on_connect, lines 242-251: the broker's CONNACK.  A
\* non-zero result raises, and the exception ends the network thread.
CloudOnConnect ==
    /\ proc = "running" /\ pc["net"] = "loop" /\ cloudState = "Connecting"
    /\ \E result \in {0, 5} :
         IF result = 0
         THEN /\ cloudState' = "Connected"
              /\ cloud_subs' = cloud_subs \cup cloud_subscriptions(mowers)
              /\ UNCHANGED pc
         ELSE /\ cloudState' = "Disconnected"
              /\ pc' = [pc EXCEPT !["net"] = "dead"]
              /\ UNCHANGED cloud_subs
    /\ UNCHANGED <<now, proc, expire_from, starts, unreferenced, monVars,
                   api, access_token, refresh_token, token_expire,
                   response, token_refresh_stop, client, username,
                   disconnecting, rc, attempt, issued, discs, gen,
                   userExp, obs, pre, refreshes, reconnects, fatalHttp,
                   mowers, privateLoop, reqVars, fleetVars, relayVars>>

\* the connection is lost or closed by the broker: the network thread calls
\* on_disconnect(rc)
CloudDisconnected ==
    /\ proc = "running" /\ pc["net"] = "loop"
    /\ cloudState \in {"Connecting", "Connected"}
    /\ discs < MaxDisc
    /\ \E code \in {1, RC_CRED} : rc' = code
    /\ discs' = discs + 1
    /\ cloudState' = "Disconnected"
    /\ pc' = [pc EXCEPT !["net"] = "d_check"]
    /\ UNCHANGED <<now, proc, expire_from, starts, unreferenced, monVars,
                   api, access_token, refresh_token, token_expire,
                   response, token_refresh_stop, client, username,
                   disconnecting, attempt, issued, gen, userExp, obs, pre,
                   refreshes, reconnects, fatalHttp, mowers, cloud_subs,
                   privateLoop, reqVars, fleetVars, relayVars>>

\* CloudMQTTClient.on_disconnect, lines 267-273
CloudOnDisconnect ==
    /\ proc = "running" /\ pc["net"] = "d_check"
    /\ IF refresh_on_disconnect
       THEN /\ pc' = [pc EXCEPT !["net"] = "gt_request"]
            /\ obs' = [obs EXCEPT !["net"] = gen]
            /\ pre' = [pre EXCEPT !["net"] = TokenState]
       ELSE /\ pc' = [pc EXCEPT !["net"] = "d_return"]
            /\ UNCHANGED <<obs, pre>>
    /\ rc' = 0
    /\ UNCHANGED <<now, proc, expire_from, starts, unreferenced, monVars,
                   api, access_token, refresh_token, token_expire,
                   response, token_refresh_stop, client, username,
                   cloudState, disconnecting, attempt, issued, discs, gen,
                   userExp, refreshes, reconnects, fatalHttp, mowers,
                   cloud_subs, privateLoop, reqVars, fleetVars, relayVars>>

\* on_disconnect has returned: the transport's automatic reconnect
\* (reconnect_on_failure, line 300; reconnect_delay_set, line 307), unless
\* the client was told to disconnect, which ends the network loop
NetAutoReconnect ==
    /\ proc = "running" /\ pc["net"] = "d_return"
    /\ IF disconnecting
       THEN /\ pc' = [pc EXCEPT !["net"] = "stopped"]
            /\ UNCHANGED <<cloudState, attempt, cloud_subs>>
       ELSE /\ sendConnect
            /\ pc' = [pc EXCEPT !["net"] = "loop"]
    /\ UNCHANGED <<now, proc, expire_from, starts, unreferenced, monVars,
                   api, access_token, refresh_token, token_expire,
                   response, token_refresh_stop, client, username,
                   disconnecting, rc, issued, discs, gen, userExp, obs,
                   pre, refreshes, reconnects, fatalHttp, mowers,
                   privateLoop, reqVars, fleetVars, relayVars>>

(***************************************************************************)
(* Topics and payloads of the local session                                *)
(***************************************************************************)
\* PrivateMQTTClient.availability_topic (line 361), and the topic of a
\* mower's discovery configs (line 420)
availability_topic == <<"mower_mqtt_bridge/status", 0>>
discovery_topic(m) == <<"homeassistant", m>>
\* the payloads "online" (line 370) and of a discovery config, as bytes
online == <<111, 110, 108, 105, 110, 101>>
config == <<123, 125>>
\* the payload "offline" (lines 362, 399), and no payload at all
offline == <<111, 102, 102, 108, 105, 110, 101>>
NoPayload == <<>>

\* a will that was never registered
no_will == NoPayload

\* line 362: will_set() in __init__, before any connect: the payload the
\* local broker publishes, retained, on the availability topic when the
\* connection ends without a DISCONNECT
last_will == offline

\* the retained availability value after the local broker lost the
\* connection
after_loss == IF last_will # NoPayload THEN last_will ELSE retained

\* MQTTDiscovery.send_discovery on every connect
send_discovery_always == TRUE

\* line 379: `if not self.auto_discover_sent`
send_discovery_due == ~auto_discover_sent

\* lines 409-421: send_discovery() publishes the configs of every mower of
\* the list it was given, in the order of the list
send_discovery(list) ==
    [m \in 1..Cardinality(list) |->
        [topic |-> discovery_topic(m), payload |-> config,
         qos |-> QOS_FLAG, retain |-> TRUE]]

(***************************************************************************)
(* main(): startup, the monitoring loop, and stop() on a signal            *)
(***************************************************************************)
\* line 690: private_client.connect_async; then authenticate() creates the
\* api (line 281) and calls get_token()
MainLocalConnectAsync ==
    /\ proc = "running" /\ pc["main"] = "m_local_connect"
    /\ api' = TRUE
    /\ pc' = [pc EXCEPT !["main"] = "gt_request"]
    /\ UNCHANGED <<now, proc, expire_from, starts, unreferenced, monVars,
                   access_token, refresh_token, token_expire, response,
                   token_refresh_stop, client, username, cloudState,
                   disconnecting, rc, attempt, issued, discs, gen,
                   userExp, obs, pre, refreshes, reconnects, fatalHttp,
                   mowers, cloud_subs, privateLoop, reqVars, fleetVars,
                   relayVars>>

\* Thread.is_alive() of the supervisor thread token_refresh_thread refers to
supervisor_alive == pc["sup"] \notin {"none", "exited", "dead"}

\* a start that never looks at the thread it already has
thread_startable_always == TRUE

\* line 325: token_refresh_thread is None, or is not alive
thread_startable == ~supervisor_alive

\* lines 324-328, start_token_auto_refresh() called by the main thread,
\* which goes on at `after`: when the test of line 325 passes, the flag is
\* cleared and token_refresh_thread becomes a new, started thread; the
\* thread it referred to runs on if it was alive
start_token_auto_refresh(after) ==
    /\ starts' = Append(starts, thread_startable)
    /\ IF thread_startable
       THEN /\ token_refresh_stop' = FALSE
            /\ unreferenced' = unreferenced + (IF supervisor_alive THEN 1 ELSE 0)
            /\ pc' = [pc EXCEPT !["main"] = after, !["sup"] = "loop"]
       ELSE /\ pc' = [pc EXCEPT !["main"] = after]
            /\ UNCHANGED <<token_refresh_stop, unreferenced>>

\* line 284: authenticate() calls start_token_auto_refresh()
MainStartSupervisor ==
    /\ proc = "running" /\ pc["main"] = "m_start_sup"
    /\ start_token_auto_refresh("m_get_mowers")
    /\ UNCHANGED <<now, proc, expire_from, monVars, api, access_token,
                   refresh_token, token_expire, response, client,
                   username, cloudState, disconnecting, rc, attempt,
                   issued, discs, gen, userExp, obs, pre, refreshes,
                   reconnects, fatalHttp, mowers, cloud_subs, privateLoop,
                   reqVars, fleetVars, relayVars>>

\* The owner of the CloudMQTTClient, once authenticate() has returned, calls
\* start_token_auto_refresh() again
CallStart ==
    /\ proc = "running" /\ pc["main"] = "m_get_mowers"
    /\ Len(starts) < MaxStarts
    /\ start_token_auto_refresh("m_get_mowers")
    /\ UNCHANGED <<now, proc, expire_from, monVars, api, access_token,
                   refresh_token, token_expire, response, client,
                   username, cloudState, disconnecting, rc, attempt,
                   issued, discs, gen, userExp, obs, pre, refreshes,
                   reconnects, fatalHttp, mowers, cloud_subs, privateLoop,
                   reqVars, fleetVars, relayVars>>

\* lines 330-331: ... or stop_token_auto_refresh(), which sets the flag and,
\* with a thread to wait for, joins it
CallStop ==
    /\ proc = "running" /\ pc["main"] = "m_get_mowers"
    /\ token_refresh_stop' = TRUE
    /\ pc' = [pc EXCEPT !["main"] = IF pc["sup"] = "none" THEN @
                                    ELSE "st_join"]
    /\ UNCHANGED <<now, proc, expire_from, starts, unreferenced, monVars,
                   api, access_token, refresh_token, token_expire,
                   response, client, username, cloudState, disconnecting,
                   rc, attempt, issued, discs, gen, userExp, obs, pre,
                   refreshes, reconnects, fatalHttp, mowers, cloud_subs,
                   privateLoop, reqVars, fleetVars, relayVars>>

\* lines 332-333: join() returns once the thread is not alive
StopJoined ==
    /\ proc = "running" /\ pc["main"] = "st_join"
    /\ ~supervisor_alive
    /\ pc' = [pc EXCEPT !["main"] = "m_get_mowers"]
    /\ UNCHANGED <<now, proc, expire_from, starts, unreferenced, monVars,
                   api, access_token, refresh_token, token_expire,
                   response, token_refresh_stop, client, username,
                   cloudState, disconnecting, rc, attempt, issued, discs,
                   gen, userExp, obs, pre, refreshes, reconnects,
                   fatalHttp, mowers, cloud_subs, privateLoop, reqVars,
                   fleetVars, relayVars>>

\* lines 289-291: connect() fetches the fleet; a failed request or an empty
\* fleet raises in the main thread
MainGetMowers ==
    /\ proc = "running" /\ pc["main"] = "m_get_mowers"
    /\ \E fleet \in {"devices", "no_devices", "failed"} :
         IF fleet = "devices"
         THEN /\ mowers' = 1..NumMowers
              /\ pc' = [pc EXCEPT !["main"] = "m_client"]
              /\ UNCHANGED proc
         ELSE /\ proc' = "exit1"
              /\ UNCHANGED <<pc, mowers>>
    /\ UNCHANGED <<now, expire_from, starts, unreferenced, monVars, api,
                   access_token, refresh_token, token_expire, response,
                   token_refresh_stop, client, username, cloudState,
                   disconnecting, rc, attempt, issued, discs, gen,
                   userExp, obs, pre, refreshes, reconnects, fatalHttp,
                   cloud_subs, privateLoop, reqVars, fleetVars, relayVars>>

\* lines 293-302: the mqtt client is created and set_username_pw() called
MainCreateClient ==
    /\ proc = "running" /\ pc["main"] = "m_client"
    /\ client' = TRUE
    /\ IF access_token = None
       THEN /\ proc' = "exit1"
            /\ UNCHANGED <<pc, username, userExp>>
       ELSE /\ username' = Username(access_token)
            /\ userExp' = token_expire
            /\ pc' = [pc EXCEPT !["main"] = "m_connect_async"]
            /\ UNCHANGED proc
    /\ UNCHANGED <<now, expire_from, starts, unreferenced, monVars, api,
                   access_token, refresh_token, token_expire, response,
                   token_refresh_stop, cloudState, disconnecting, rc,
                   attempt, issued, discs, gen, obs, pre, refreshes,
                   reconnects, fatalHttp, mowers, cloud_subs, privateLoop,
                   reqVars, fleetVars, relayVars>>

\* lines 304-313: callbacks registered, client.connect_async; lines 695-696:
\* both sessions get their relay target
MainConnectAsync ==
    /\ proc = "running" /\ pc["main"] = "m_connect_async"
    /\ pc' = [pc EXCEPT !["main"] = "m_loop_start"]
    /\ UNCHANGED <<now, proc, expire_from, starts, unreferenced, monVars,
                   api, access_token, refresh_token, token_expire,
                   response, token_refresh_stop, client, username,
                   cloudState, disconnecting, rc, attempt, issued, discs,
                   gen, userExp, obs, pre, refreshes, reconnects,
                   fatalHttp, mowers, cloud_subs, privateLoop, reqVars,
                   fleetVars, relayVars>>

\* lines 698-699: loop_start() of both clients starts their network
\* threads; the local one opens the connection asked for at line 690
MainLoopStart ==
    /\ proc = "running" /\ pc["main"] = "m_loop_start"
    /\ privateLoop' = "running"
    /\ privateState' = "Connecting"
    /\ pc' = [pc EXCEPT !["main"] = "m_poll", !["net"] = "first"]
    /\ UNCHANGED <<now, proc, expire_from, starts, unreferenced, monVars,
                   api, access_token, refresh_token, token_expire,
                   response, token_refresh_stop, client, username,
                   cloudState, disconnecting, rc, attempt, issued, discs,
                   gen, userExp, obs, pre, refreshes, reconnects,
                   fatalHttp, mowers, cloud_subs, reqVars, fleetVars,
                   private_subs, auto_discover_sent, discoveries,
                   received, private_published, cloud_published, retained>>

\* line 704: the payload '{"cmd":0}'
cmd0 == <<123, 34, 99, 109, 100, 34, 58, 48, 125>>

\* lines 702-707: the status polls main() publishes through
\* CloudMQTTClient.publish, one per mower, in the order of the list
polls ==
    [m \in 1..Cardinality(mowers) |->
        [topic |-> command_in(m), payload |-> cmd0,
         qos |-> QOS_FLAG, retain |-> FALSE]]

\* lines 702-707: one status poll per mower; lines 716-717: stop() is
\* registered for SIGTERM and SIGINT, and the monitoring loop begins
MainPoll ==
    /\ proc = "running" /\ pc["main"] = "m_poll"
    /\ cloud_published' = cloud_published \o polls
    /\ pc' = [pc EXCEPT !["main"] = "m_monitor"]
    /\ UNCHANGED <<now, proc, expire_from, starts, unreferenced, monVars,
                   api, access_token, refresh_token, token_expire,
                   response, token_refresh_stop, client, username,
                   cloudState, disconnecting, rc, attempt, issued, discs,
                   gen, userExp, obs, pre, refreshes, reconnects,
                   fatalHttp, mowers, cloud_subs, privateLoop, reqVars,
                   fleetVars, privateState, private_subs,
                   auto_discover_sent, discoveries, received,
                   private_published, retained>>

\* a termination signal arrives during the monitoring loop: stop() runs in
\* the main thread, and through disconnect() (line 321) sets the
\* cancellation flag (line 331)
Signal ==
    /\ proc = "running" /\ pc["main"] = "m_monitor"
    /\ token_refresh_stop' = TRUE
    /\ pc' = [pc EXCEPT !["main"] = "s_join"]
    /\ UNCHANGED <<now, proc, expire_from, starts, unreferenced, monVars,
                   api, access_token, refresh_token, token_expire,
                   response, client, username, cloudState, disconnecting,
                   rc, attempt, issued, discs, gen, userExp, obs, pre,
                   refreshes, reconnects, fatalHttp, mowers, cloud_subs,
                   privateLoop, reqVars, fleetVars, relayVars>>

\* lines 332-333: join() returns once the supervisor thread has ended; line
\* 322: client.disconnect() closes the cloud session, and the network loop
\* ends when it sees the client disconnecting
StopCloudDisconnect ==
    /\ proc = "running" /\ pc["main"] = "s_join"
    /\ pc["sup"] \in {"none", "exited", "dead"}
    /\ disconnecting' = TRUE
    /\ cloudState' = "Disconnected"
    /\ pc' = [pc EXCEPT !["main"] = "s_private_disc",
                        !["net"] = IF @ = "loop" THEN "stopped" ELSE @]
    /\ UNCHANGED <<now, proc, expire_from, starts, unreferenced, monVars,
                   api, access_token, refresh_token, token_expire,
                   response, token_refresh_stop, client, username, rc,
                   attempt, issued, discs, gen, userExp, obs, pre,
                   refreshes, reconnects, fatalHttp, mowers, cloud_subs,
                   privateLoop, reqVars, fleetVars, relayVars>>

\* line 713: private_client.disconnect(), lines 397-400: "offline" is
\* published, then DISCONNECT queued; line 714: sys.exit(0) in the main
\* thread.  Both packets are written by the local network thread, a daemon
\* thread that the exit of the process ends: `written` packets reach the
\* broker.  With none written the broker sees the connection end without
\* a DISCONNECT; with the PUBLISH written, "offline" is the retained value.
StopExit ==
    /\ proc = "running" /\ pc["main"] = "s_private_disc"
    /\ private_published' =
           Append(private_published,
                  [topic |-> availability_topic, payload |-> offline,
                   qos |-> QOS_FLAG, retain |-> TRUE])
    /\ \E written \in 0..2 :
         /\ written > 0 => privateLoop = "running"
         /\ retained' = IF privateState # "Connected" THEN retained
                        ELSE IF written = 0 THEN after_loss
                        ELSE offline
    /\ privateState' = "Disconnected"
    /\ proc' = "exit0"
    /\ UNCHANGED <<now, pc, expire_from, starts, unreferenced, monVars,
                   api, access_token, refresh_token, token_expire,
                   response, token_refresh_stop, client, username,
                   cloudState, disconnecting, rc, attempt, issued, discs,
                   gen, userExp, obs, pre, refreshes, reconnects,
                   fatalHttp, mowers, cloud_subs, privateLoop, reqVars,
                   fleetVars, private_subs, auto_discover_sent,
                   discoveries, received, cloud_published>>

(***************************************************************************)
(* main()'s monitoring loop, lines 719-734                                 *)
(***************************************************************************)
\* lines 729-730: client.is_connected() of either session, as Python
\* prints it
is_connected(b) ==
    IF b = "cloud" THEN (IF cloudState = "Connected" THEN "True" ELSE "False")
    ELSE (IF privateState = "Connected" THEN "True" ELSE "False")

\* a loop that logs at every poll
changed_always(b) == TRUE

\* line 733: the polled value differs from the recorded one (None before
\* the first poll)
changed(b) == is_connected(b) # last_state_client_connected[b]

\* the entry line 734 logs for broker b
log_entry(b) ==
    IF changed(b) THEN <<[broker |-> b, connected |-> is_connected(b)]>>
    ELSE <<>>

\* lines 727-735: one pass of the loop after its sleep; the dict is walked
\* in its order, cloud first
MonitorPoll ==
    /\ proc = "running" /\ pc["main"] = "m_monitor"
    /\ connections' = [b \in Brokers |-> is_connected(b)]
    /\ monitor_log' = monitor_log \o log_entry("cloud") \o log_entry("private")
    /\ last_state_client_connected' =
           [b \in Brokers |-> IF changed(b) THEN is_connected(b)
                              ELSE last_state_client_connected[b]]
    /\ UNCHANGED <<now, proc, pc, expire_from, starts, unreferenced, api,
                   access_token, refresh_token, token_expire, response,
                   token_refresh_stop, client, username, cloudState,
                   disconnecting, rc, attempt, issued, discs, gen,
                   userExp, obs, pre, refreshes, reconnects, fatalHttp,
                   mowers, cloud_subs, privateLoop, reqVars, fleetVars,
                   relayVars>>

\* time passes
Tick ==
    /\ proc = "running" /\ now < MaxTime
    /\ now' = now + 1
    /\ UNCHANGED <<proc, pc, expire_from, starts, unreferenced, monVars,
                   api, access_token, refresh_token, token_expire,
                   response, token_refresh_stop, client, username,
                   cloudState, disconnecting, rc, attempt, issued, discs,
                   gen, userExp, obs, pre, refreshes, reconnects,
                   fatalHttp, mowers, cloud_subs, privateLoop, reqVars,
                   fleetVars, relayVars>>

\* SIGTERM arrives before line 716 has registered stop(): the signal's
\* default action ends the process at once, stop() never runs
SignalDefault ==
    /\ proc = "running"
    /\ pc["main"] \notin {"m_monitor", "s_join", "s_private_disc"}
    /\ proc' = "killed"
    /\ UNCHANGED <<now, pc, expire_from, starts, unreferenced, monVars,
                   api, access_token, refresh_token, token_expire,
                   response, token_refresh_stop, client, username,
                   cloudState, disconnecting, rc, attempt, issued, discs,
                   gen, userExp, obs, pre, refreshes, reconnects,
                   fatalHttp, mowers, cloud_subs, privateLoop, reqVars,
                   fleetVars, relayVars>>

(***************************************************************************)
(* The relay: on_message of both sessions, and the local session's         *)
(* on_connect                                                              *)
(***************************************************************************)
\* a continuation byte of UTF-8
cont(b) == b >= 128 /\ b <= 191

\* bytes.decode('utf-8') succeeds
RECURSIVE utf8_valid(_)
utf8_valid(b) ==
    IF b = <<>> THEN TRUE
    ELSE LET h == b[1] IN
         IF h < 128 THEN utf8_valid(Tail(b))
         ELSE IF h >= 194 /\ h <= 223
         THEN /\ Len(b) >= 2 /\ cont(b[2])
              /\ utf8_valid(SubSeq(b, 3, Len(b)))
         ELSE IF h >= 224 /\ h <= 239
         THEN /\ Len(b) >= 3 /\ cont(b[2]) /\ cont(b[3])
              /\ (h = 224 => b[2] >= 160)
              /\ (h = 237 => b[2] <= 159)
              /\ utf8_valid(SubSeq(b, 4, Len(b)))
         ELSE IF h >= 240 /\ h <= 244
         THEN /\ Len(b) >= 4 /\ cont(b[2]) /\ cont(b[3]) /\ cont(b[4])
              /\ (h = 240 => b[2] >= 144)
              /\ (h = 244 => b[2] <= 143)
              /\ utf8_valid(SubSeq(b, 5, Len(b)))
         ELSE FALSE

\* payloads a broker delivers: "{}", U+00E9, and two byte strings that are
\* no UTF-8
Payloads == {<<123, 125>>, <<195, 169>>, <<255>>, <<195>>}

\* the messages a broker delivers for the subscriptions it holds, each at
\* a quality of service its subscription allows
Messages(subs) ==
    UNION {[topic : {s.topic}, payload : Payloads, qos : 0..s.qos,
            retain : BOOLEAN] : s \in subs}

\* PrivateMQTTClient.on_connect, lines 367-385: the local broker's CONNACK
PrivateOnConnect ==
    /\ proc = "running" /\ privateLoop = "running"
    /\ privateState = "Connecting"
    /\ \E result \in {0, 5} :
         IF result = 0
         THEN /\ privateState' = "Connected"
              /\ private_subs' =
                     private_subs \cup private_subscriptions(mowers)
              /\ private_published' =
                     Append(private_published,
                            [topic |-> availability_topic, payload |-> online,
                             qos |-> QOS_FLAG, retain |-> TRUE])
                     \o (IF send_discovery_due THEN send_discovery(mowers)
                         ELSE <<>>)
              /\ retained' = online
              /\ auto_discover_sent' = TRUE
              /\ discoveries' = IF send_discovery_due THEN discoveries + 1
                                ELSE discoveries
              /\ UNCHANGED privateLoop
         ELSE /\ privateState' = "Disconnected"
              /\ privateLoop' = "dead"
              /\ UNCHANGED <<private_subs, private_published, retained,
                             auto_discover_sent, discoveries>>
    /\ UNCHANGED <<now, proc, pc, expire_from, starts, unreferenced,
                   monVars, api, access_token, refresh_token,
                   token_expire, response, token_refresh_stop, client,
                   username, cloudState, disconnecting, rc, attempt,
                   issued, discs, gen, userExp, obs, pre, refreshes,
                   reconnects, fatalHttp, mowers, cloud_subs, reqVars,
                   fleetVars, received, cloud_published>>

\* the local session's successful connects so far: each published "online"
localConnects ==
    Cardinality({i \in 1..Len(private_published) :
                    /\ private_published[i].topic = availability_topic
                    /\ private_published[i].payload = online})

\* the local connection is lost; the transport reconnects by itself
\* (PrivateMQTTClient.on_disconnect, lines 394-395, only logs)
PrivateReconnect ==
    /\ proc = "running" /\ privateLoop = "running"
    /\ privateState = "Connected"
    /\ localConnects < MaxLocalConn
    /\ privateState' = "Connecting"
    /\ private_subs' = {}
    /\ retained' = after_loss
    /\ UNCHANGED <<now, proc, pc, expire_from, starts, unreferenced,
                   monVars, api, access_token, refresh_token,
                   token_expire, response, token_refresh_stop, client,
                   username, cloudState, disconnecting, rc, attempt,
                   issued, discs, gen, userExp, obs, pre, refreshes,
                   reconnects, fatalHttp, mowers, cloud_subs, privateLoop,
                   reqVars, fleetVars, auto_discover_sent, discoveries,
                   received, private_published, cloud_published>>

\* the process is ended from outside (SIGKILL, power loss): its sockets
\* close without a DISCONNECT
ProcessKilled ==
    /\ proc = "running"
    /\ proc' = "killed"
    /\ privateState' = "Disconnected"
    /\ retained' = IF privateState = "Connected" THEN after_loss
                   ELSE retained
    /\ UNCHANGED <<now, pc, expire_from, starts, unreferenced, monVars,
                   api, access_token, refresh_token, token_expire,
                   response, token_refresh_stop, client, username,
                   cloudState, disconnecting, rc, attempt, issued, discs,
                   gen, userExp, obs, pre, refreshes, reconnects,
                   fatalHttp, mowers, cloud_subs, privateLoop, reqVars,
                   fleetVars, private_subs, auto_discover_sent,
                   discoveries, received, private_published,
                   cloud_published>>

\* the local network thread has died in a callback: nothing answers the
\* broker's keepalive (45 s, line 690) and the broker drops the connection
BrokerKeepaliveTimeout ==
    /\ proc = "running" /\ privateLoop = "dead"
    /\ privateState = "Connected"
    /\ privateState' = "Disconnected"
    /\ retained' = after_loss
    /\ UNCHANGED <<now, proc, pc, expire_from, starts, unreferenced,
                   monVars, api, access_token, refresh_token,
                   token_expire, response, token_refresh_stop, client,
                   username, cloudState, disconnecting, rc, attempt,
                   issued, discs, gen, userExp, obs, pre, refreshes,
                   reconnects, fatalHttp, mowers, cloud_subs, privateLoop,
                   reqVars, fleetVars, private_subs, auto_discover_sent,
                   discoveries, received, private_published,
                   cloud_published>>

\* CloudMQTTClient.on_message, lines 253-259.  Line 255 decodes the payload
\* for the log record before the try: a payload that is no UTF-8 raises
\* UnicodeDecodeError into the network loop, which ends the thread.
CloudOnMessage ==
    /\ proc = "running" /\ pc["net"] = "loop" /\ cloudState = "Connected"
    /\ Len(received) < MaxMsgs
    /\ \E msg \in Messages(cloud_subs) :
         /\ received' = Append(received, [from |-> "cloud", msg |-> msg])
         /\ IF utf8_valid(msg.payload)
            THEN /\ private_published' = Append(private_published,
                        [topic |-> msg.topic, payload |-> msg.payload,
                         qos |-> QOS_FLAG, retain |-> TRUE])
                 /\ UNCHANGED pc
            ELSE /\ pc' = [pc EXCEPT !["net"] = "dead"]
                 /\ UNCHANGED private_published
    /\ UNCHANGED <<now, proc, expire_from, starts, unreferenced, monVars,
                   api, access_token, refresh_token, token_expire,
                   response, token_refresh_stop, client, username,
                   cloudState, disconnecting, rc, attempt, issued, discs,
                   gen, userExp, obs, pre, refreshes, reconnects,
                   fatalHttp, mowers, cloud_subs, privateLoop, reqVars,
                   fleetVars, privateState, private_subs,
                   auto_discover_sent, discoveries, cloud_published,
                   retained>>

\* PrivateMQTTClient.on_message, lines 387-392, and CloudMQTTClient.publish,
\* lines 275-277 (retain is left at publish()'s default, False)
PrivateOnMessage ==
    /\ proc = "running" /\ privateLoop = "running"
    /\ privateState = "Connected"
    /\ Len(received) < MaxMsgs
    /\ \E msg \in Messages(private_subs) :
         /\ received' = Append(received, [from |-> "private", msg |-> msg])
         /\ IF utf8_valid(msg.payload)
            THEN /\ cloud_published' = Append(cloud_published,
                        [topic |-> msg.topic, payload |-> msg.payload,
                         qos |-> QOS_FLAG, retain |-> FALSE])
                 /\ UNCHANGED privateLoop
            ELSE /\ privateLoop' = "dead"
                 /\ UNCHANGED cloud_published
    /\ UNCHANGED <<now, proc, pc, expire_from, starts, unreferenced,
                   monVars, api, access_token, refresh_token,
                   token_expire, response, token_refresh_stop, client,
                   username, cloudState, disconnecting, rc, attempt,
                   issued, discs, gen, userExp, obs, pre, refreshes,
                   reconnects, fatalHttp, mowers, cloud_subs, reqVars,
                   fleetVars, privateState, private_subs,
                   auto_discover_sent, discoveries, private_published,
                   retained>>

(***************************************************************************)
(* CloudEndpointAPI.request() on its own                                   *)
(***************************************************************************)
NoRequest == [exc |-> FALSE, status |-> 0, json |-> NoResponse, timeouts |-> 0]
NoResult == [kind |-> "none", has_json |-> FALSE, value |-> NoResponse,
             slept |-> 0, attempts |-> 0]

\* the HTTP exchanges request() is applied to
RequestInputs ==
    {[exc |-> FALSE, status |-> st, json |-> j, timeouts |-> n] :
        st \in {200, 204, 400, 401, 403, 404, 500, 502, 503, 504},
        j \in TokenResponses(1), n \in 0..NUM_RETRIES}
    \cup {[exc |-> TRUE, status |-> 0, json |-> NoResponse, timeouts |-> n] :
            n \in 0..NUM_RETRIES}

\* a caller runs request() on the exchange
RequestCall ==
    /\ reqOut.kind = "none"
    /\ reqOut' = request(reqIn)
    /\ UNCHANGED reqIn
    /\ UNCHANGED <<now, proc, pc, expire_from, starts, unreferenced,
                   monVars, api, access_token, refresh_token,
                   token_expire, response, token_refresh_stop, client,
                   username, cloudState, disconnecting, rc, attempt,
                   issued, discs, gen, userExp, obs, pre, refreshes,
                   reconnects, fatalHttp, mowers, cloud_subs, privateLoop,
                   fleetVars, relayVars>>

(***************************************************************************)
(* CloudEndpointAPI.get_mowers() and get_model() on their own              *)
(***************************************************************************)
\* Python's None, for a mower's "model"
NoModel == <<>>

\* the products of the catalog endpoint: two products may carry the same
\* id, told apart by their code
Products ==
    {[id |-> i, code |-> c, default_name |-> "WR", meters |-> 100 * c,
      product_year |-> 2020 + c] : i \in 1..MaxProductId, c \in 1..2}

\* the mowers of the directory endpoint; a product_id above MaxProductId
\* is in no catalog
Devices ==
    [serial_number : 1..MaxFleet, product_id : 1..(MaxProductId + 1)]

\* the sequences over S of length at most n
RECURSIVE SeqUpTo(_, _)
SeqUpTo(S, n) ==
    IF n = 0 THEN {<<>>}
    ELSE LET shorter == SeqUpTo(S, n - 1)
         IN  shorter \cup {Append(s, e) : s \in {q \in shorter : Len(q) = n - 1},
                                          e \in S}

\* the exchanges of one endpoint whose JSON body is a list from `bodies`
ListExchanges(bodies) ==
    {[exc |-> FALSE, status |-> 200, json |-> j, timeouts |-> 0] :
        j \in bodies}
    \cup {[exc |-> e, status |-> st, json |-> <<>>, timeouts |-> n] :
            e \in BOOLEAN, st \in {401}, n \in 0..1}

\* lines 207-209: get_model(), given what request() returned for the
\* catalog: the first product with the id, else None
get_model(products, product_id) ==
    IF \E j \in 1..Len(products) : products[j]["id"] = product_id
    THEN LET j == CHOOSE k \in 1..Len(products) :
                     /\ products[k]["id"] = product_id
                     /\ \A l \in 1..(k - 1) : products[l]["id"] # product_id
         IN  <<products[j]>>
    ELSE NoModel

\* lines 186-193: the mower with its "model" entry
enrich(mower, model) ==
    IF model # NoModel
    THEN [serial_number |-> mower.serial_number,
          product_id |-> mower.product_id,
          model |-> <<[code |-> model[1].code,
                       friendly_name |-> <<model[1].default_name,
                                           model[1].meters, " ",
                                           model[1].product_year>>]>>]
    ELSE [serial_number |-> mower.serial_number,
          product_id |-> mower.product_id,
          model |-> NoModel]

\* a loop that would skip the mowers whose product is in no catalog
enrich_all_skipping(list, products) ==
    LET known == SelectSeq(list,
                     LAMBDA m : get_model(products, m.product_id) # NoModel)
    IN  [i \in 1..Len(known) |->
            enrich(known[i], get_model(products, known[i].product_id))]

\* lines 183-196: the loop over the mowers, in the order of the list
enrich_all(list, products) ==
    [i \in 1..Len(list) |->
        enrich(list[i], get_model(products, list[i].product_id))]

\* get_mowers(), lines 176-198, on the exchange f.devices of the directory
\* endpoint and f.catalog of the catalog endpoint.  request() returns None
\* for a 504: iterating over None raises TypeError.  The catalog is asked
\* for once per mower, and not at all for an empty list.
get_mowers(f) ==
    LET d == request(f.devices)
        c == request(f.catalog)
    IN  IF d.kind # "return"
        THEN [kind |-> d.kind, value |-> <<>>]
        ELSE IF ~d.has_json
        THEN [kind |-> "raise", value |-> <<>>]
        ELSE IF d.value = <<>>
        THEN [kind |-> "return", value |-> <<>>]
        ELSE IF c.kind # "return"
        THEN [kind |-> c.kind, value |-> <<>>]
        ELSE IF ~c.has_json
        THEN [kind |-> "raise", value |-> <<>>]
        ELSE [kind |-> "return", value |-> enrich_all(d.value, c.value)]

NoFleet == [devices |-> NoRequest, catalog |-> NoRequest]
NoDevices == [kind |-> "none", value |-> <<>>]

\* the exchanges get_mowers() is applied to
FleetInputs ==
    [devices : ListExchanges(SeqUpTo(Devices, MaxFleet)),
     catalog : ListExchanges(SeqUpTo(Products, MaxFleet))]

\* a caller runs get_mowers()
GetMowersCall ==
    /\ fleetOut.kind = "none"
    /\ fleetOut' = get_mowers(fleetIn)
    /\ UNCHANGED fleetIn
    /\ UNCHANGED <<now, proc, pc, expire_from, starts, unreferenced,
                   monVars, api, access_token, refresh_token,
                   token_expire, response, token_refresh_stop, client,
                   username, cloudState, disconnecting, rc, attempt,
                   issued, discs, gen, userExp, obs, pre, refreshes,
                   reconnects, fatalHttp, mowers, cloud_subs, privateLoop,
                   reqVars, relayVars>>

(***************************************************************************)
(* The specifications                                                      *)
(***************************************************************************)
\* the process as main() finds it
InitProcess ==
    /\ now = 1
    /\ proc = "running"
    /\ pc = [t \in Threads |-> IF t = "main" THEN "m_local_connect"
                               ELSE IF t = "sup" THEN "none" ELSE "off"]
    /\ api = FALSE
    /\ access_token = None /\ refresh_token = None /\ token_expire = 0
    /\ expire_from = None
    /\ starts = <<>> /\ unreferenced = 0
    /\ last_state_client_connected = [b \in Brokers |-> "None"]
    /\ connections = [b \in Brokers |-> "None"]
    /\ monitor_log = <<>>
    /\ response = [t \in Threads |-> NoResponse]
    /\ token_refresh_stop = FALSE
    /\ client = FALSE
    /\ username = NoUser
    /\ cloudState = "Disconnected"
    /\ disconnecting = FALSE
    /\ rc = 0
    /\ attempt = [user |-> NoUser, token |-> None, exp |-> 0]
    /\ issued = 0 /\ discs = 0 /\ gen = 0 /\ userExp = 0
    /\ obs = [t \in Refreshers |-> 0]
    /\ pre = [t \in Refreshers |-> <<None, None, 0>>]
    /\ refreshes = [g \in 0..MaxIssue |-> 0]
    /\ reconnects = [g \in 0..MaxIssue |-> 0]
    /\ fatalHttp = FALSE
    /\ mowers = {}
    /\ cloud_subs = {}
    /\ privateLoop = "off"

InitRelayVars ==
    /\ privateState = "Disconnected"
    /\ private_subs = {}
    /\ auto_discover_sent = FALSE
    /\ discoveries = 0
    /\ received = <<>>
    /\ private_published = <<>>
    /\ cloud_published = <<>>
    /\ retained = NoPayload

Init ==
    /\ InitProcess
    /\ InitRelayVars
    /\ reqIn = NoRequest /\ reqOut = NoResult
    /\ fleetIn = NoFleet /\ fleetOut = NoDevices

Next ==
    \/ \E t \in Threads : GetTokenRequest(t)
    \/ \E t \in Threads : GetTokenRefreshField(t)
    \/ \E t \in Threads : GetTokenFinish(t)
    \/ \E t \in Refreshers : TokenRefreshSetUsername(t)
    \/ \E t \in Refreshers : TokenRefreshReconnect(t)
    \/ \E t \in Refreshers : TokenRefreshExcept(t)
    \/ SupervisorLoop \/ SupervisorCheck \/ SupervisorWake
    \/ NetFirstConnect \/ CloudOnConnect \/ CloudDisconnected
    \/ CloudOnDisconnect \/ NetAutoReconnect
    \/ MainLocalConnectAsync \/ MainStartSupervisor \/ MainGetMowers
    \/ MainCreateClient \/ MainConnectAsync \/ MainLoopStart \/ MainPoll
    \/ Signal \/ StopCloudDisconnect \/ StopExit \/ SignalDefault
    \/ Tick

\* the threads of the process around TokenState and the cloud session
Spec == Init /\ [][Next]_vars

\* start_token_auto_refresh() and stop_token_auto_refresh() called in any
\* order by the owner of the CloudMQTTClient once authenticate() has
\* returned, beside the supervisor threads they start
NextSup ==
    \/ MainLocalConnectAsync
    \/ \E t \in {"main", "sup"} : GetTokenRequest(t)
    \/ \E t \in {"main", "sup"} : GetTokenRefreshField(t)
    \/ \E t \in {"main", "sup"} : GetTokenFinish(t)
    \/ TokenRefreshSetUsername("sup") \/ TokenRefreshExcept("sup")
    \/ SupervisorLoop \/ SupervisorCheck \/ SupervisorWake
    \/ MainStartSupervisor \/ CallStart \/ CallStop \/ StopJoined
    \/ Tick

SpecSup == Init /\ [][NextSup]_vars

\* request() applied to every exchange of RequestInputs
InitRequest ==
    /\ InitProcess
    /\ InitRelayVars
    /\ reqIn \in RequestInputs /\ reqOut = NoResult
    /\ fleetIn = NoFleet /\ fleetOut = NoDevices

SpecRequest == InitRequest /\ [][RequestCall]_vars

\* get_mowers() applied to every pair of exchanges of FleetInputs
InitFleet ==
    /\ InitProcess
    /\ InitRelayVars
    /\ reqIn = NoRequest /\ reqOut = NoResult
    /\ fleetIn \in FleetInputs /\ fleetOut = NoDevices

SpecFleet == InitFleet /\ [][GetMowersCall]_vars

\* The relay, from the state main() reaches when startup went well: the
\* token acquired and not expired, the fleet fetched, both network threads
\* started, the supervisor asleep, both transports connecting.
InitRelay ==
    /\ now = 1
    /\ proc = "running"
    /\ pc = [t \in Threads |-> IF t = "main" THEN "m_monitor"
                               ELSE IF t = "sup" THEN "sleep" ELSE "loop"]
    /\ api = TRUE
    /\ access_token = 1 /\ refresh_token = 1
    /\ token_expire = now + MaxExpiresIn
    /\ expire_from = 1
    /\ starts = <<TRUE>> /\ unreferenced = 0
    /\ last_state_client_connected = [b \in Brokers |-> "None"]
    /\ connections = [b \in Brokers |-> "None"]
    /\ monitor_log = <<>>
    /\ response = [t \in Threads |-> NoResponse]
    /\ token_refresh_stop = FALSE
    /\ client = TRUE
    /\ username = Username(1)
    /\ cloudState = "Connecting"
    /\ disconnecting = FALSE
    /\ rc = 0
    /\ attempt = [user |-> Username(1), token |-> 1,
                  exp |-> now + MaxExpiresIn]
    /\ issued = 1 /\ discs = 0 /\ gen = 1 /\ userExp = now + MaxExpiresIn
    /\ obs = [t \in Refreshers |-> 0]
    /\ pre = [t \in Refreshers |-> <<None, None, 0>>]
    /\ refreshes = [g \in 0..MaxIssue |-> 0]
    /\ reconnects = [g \in 0..MaxIssue |-> 0]
    /\ fatalHttp = FALSE
    /\ mowers = 1..NumMowers
    /\ cloud_subs = {}
    /\ privateLoop = "running"
    /\ privateState = "Connecting"
    /\ private_subs = {}
    /\ auto_discover_sent = FALSE
    /\ discoveries = 0
    /\ received = <<>>
    /\ private_published = <<>>
    /\ cloud_published = polls
    /\ retained = NoPayload
    /\ reqIn = NoRequest /\ reqOut = NoResult
    /\ fleetIn = NoFleet /\ fleetOut = NoDevices

NextRelay ==
    \/ CloudOnConnect \/ PrivateOnConnect \/ PrivateReconnect
    \/ CloudOnMessage \/ PrivateOnMessage

SpecRelay == InitRelay /\ [][NextRelay]_vars

\* Both sessions from the same state through the loss of their connections:
\* the cloud session's on_disconnect with the refresh it may run and the
\* transport's reconnect, and the local session's reconnect
NextSession ==
    \/ CloudOnConnect \/ CloudDisconnected \/ CloudOnDisconnect
    \/ NetAutoReconnect
    \/ GetTokenRequest("net")
    \/ GetTokenRefreshField("net")
    \/ GetTokenFinish("net")
    \/ TokenRefreshSetUsername("net")
    \/ TokenRefreshReconnect("net")
    \/ TokenRefreshExcept("net")
    \/ PrivateOnConnect \/ PrivateReconnect
    \/ Tick

SpecSession == InitRelay /\ [][NextSession]_vars

\* main()'s monitoring loop beside both sessions as they connect, lose
\* their connections and reconnect
NextMonitor ==
    \/ MonitorPoll
    \/ CloudOnConnect \/ CloudDisconnected \/ CloudOnDisconnect
    \/ NetAutoReconnect
    \/ PrivateOnConnect \/ PrivateReconnect

SpecMonitor == InitRelay /\ [][NextMonitor]_vars

\* The local session from the same state to the end of the process: its
\* callbacks, the loss of its connection, stop() on a signal with the
\* supervisor it waits for, and the end of the process from outside.
NextLocal ==
    \/ PrivateOnConnect \/ PrivateReconnect \/ PrivateOnMessage
    \/ BrokerKeepaliveTimeout \/ ProcessKilled
    \/ SupervisorLoop \/ SupervisorCheck \/ SupervisorWake
    \/ Signal \/ StopCloudDisconnect \/ StopExit

SpecLocal == InitRelay /\ [][NextLocal]_vars

\* Spec with every thread scheduled fairly: a thread that can take a step
\* eventually takes one
Fairness ==
    /\ \A t \in Threads :
         /\ WF_vars(GetTokenRequest(t))
         /\ WF_vars(GetTokenRefreshField(t))
         /\ WF_vars(GetTokenFinish(t))
    /\ \A t \in Refreshers :
         /\ WF_vars(TokenRefreshSetUsername(t))
         /\ WF_vars(TokenRefreshReconnect(t))
         /\ WF_vars(TokenRefreshExcept(t))
    /\ WF_vars(SupervisorLoop) /\ WF_vars(SupervisorCheck)
    /\ WF_vars(SupervisorWake)
    /\ WF_vars(NetFirstConnect) /\ WF_vars(CloudOnDisconnect)
    /\ WF_vars(NetAutoReconnect)
    /\ WF_vars(MainLocalConnectAsync) /\ WF_vars(MainStartSupervisor)
    /\ WF_vars(MainGetMowers) /\ WF_vars(MainCreateClient)
    /\ WF_vars(MainConnectAsync) /\ WF_vars(MainLoopStart)
    /\ WF_vars(MainPoll)
    /\ WF_vars(StopCloudDisconnect) /\ WF_vars(StopExit)

SpecLive == Spec /\ Fairness

\* the state the relay starts from is one the process reaches
RelayStartReached ==
    ~ /\ pc = [t \in Threads |-> IF t = "main" THEN "m_monitor"
                                 ELSE IF t = "sup" THEN "sleep" ELSE "loop"]
      /\ now = 1 /\ token_expire = now + MaxExpiresIn
      /\ access_token = 1 /\ refresh_token = 1 /\ username = Username(1)
      /\ expire_from = 1 /\ starts = <<TRUE>> /\ unreferenced = 0
      /\ last_state_client_connected = [b \in Brokers |-> "None"]
      /\ connections = [b \in Brokers |-> "None"]
      /\ monitor_log = <<>>
      /\ cloudState = "Connecting" /\ privateState = "Connecting"
      /\ attempt = [user |-> Username(1), token |-> 1,
                    exp |-> now + MaxExpiresIn]
      /\ issued = 1 /\ gen = 1 /\ discs = 0 /\ userExp = now + MaxExpiresIn
      /\ mowers = 1..NumMowers /\ privateLoop = "running" /\ cloud_subs = {}
      /\ cloud_published = polls /\ private_published = <<>>
      /\ received = <<>> /\ retained = NoPayload /\ discoveries = 0
      /\ ~auto_discover_sent /\ private_subs = {}
      /\ ~fatalHttp /\ ~disconnecting /\ ~token_refresh_stop /\ rc = 0
      /\ refreshes = [g \in 0..MaxIssue |-> 0]
      /\ reconnects = [g \in 0..MaxIssue |-> 0]

(***************************************************************************)
(* Properties                                                              *)
(***************************************************************************)
\* C1: the supervisor loop survives every failed refresh: while the process
\* runs and the cancellation flag is not set, a supervisor that was started
\* is still in its loop, whatever its refresh attempts ended in.
C1_SupervisorSurvivesFailedRefresh ==
    (proc = "running" /\ pc["sup"] # "none" /\ ~token_refresh_stop)
        => pc["sup"] \notin {"dead", "exited"}

\* C2: a failed refresh leaves TokenState unchanged: at the step where the
\* token exchange of a refresh fails in thread t, access_token,
\* refresh_token and token_expire are what they were when t's refresh began.
C2_FailedRefreshKeepsTokenState ==
    [][\A t \in Refreshers :
         (pc[t] \in {"gt_request", "gt_157", "gt_159"}
            /\ pc'[t] \in {"tr_except", "dead"})
         => TokenState' = pre[t]]_vars

\* the number of attempts the endpoint answers with 504 before any other
\* answer, within the NUM_RETRIES attempts request() may make
leading504(x) ==
    IF ~x.exc /\ x.status = 504 THEN NUM_RETRIES
    ELSE IF x.timeouts < NUM_RETRIES THEN x.timeouts ELSE NUM_RETRIES

\* C3: request() retries on 504, at most NUM_RETRIES attempts in total: a
\* success after n < NUM_RETRIES timeouts returns its JSON body from attempt
\* n + 1, NUM_RETRIES timeouts end in the raise after the loop, and nothing
\* is returned without a successful HTTP response.
C3_RequestRetriesGatewayTimeout ==
    reqOut.kind # "none" =>
        /\ leading504(reqIn) = NUM_RETRIES
             => reqOut.kind = "raise" /\ reqOut.attempts = NUM_RETRIES
        /\ (leading504(reqIn) < NUM_RETRIES /\ ~reqIn.exc
              /\ ~raise_for_status(reqIn.status))
             => /\ reqOut.kind = "return" /\ reqOut.has_json
                /\ reqOut.value = reqIn.json
                /\ reqOut.attempts = leading504(reqIn) + 1
        /\ reqOut.kind = "return"
             => reqOut.has_json /\ ~reqIn.exc /\ ~raise_for_status(reqIn.status)

\* C4: once a request() has met an HTTP error status other than 504, the
\* process has ended with a non-zero status, whichever thread made the
\* request.
C4_HttpErrorAbortsProcess == fatalHttp => proc = "exit1"

\* C5: the cloud session is never Connecting or Connected on a credential
\* whose access token is expired.
C5_NoSessionOnExpiredToken ==
    cloudState \in {"Connecting", "Connected"} => now < attempt.exp

\* C6: every CONNECT sent for the cloud session carried the credential
\* derived from the access token current at that moment.
C6_ConnectUsesCurrentCredential ==
    attempt.token # None => attempt.user = Username(attempt.token)

\* C7: one expiry is answered by one refresh cycle: for every token
\* generation seen expired, at most one refresh exchange completed and at
\* most one forced reconnect was sent.
C7_OneRefreshCyclePerExpiry ==
    \A g \in 0..MaxIssue : refreshes[g] <= 1 /\ reconnects[g] <= 1

\* C8: expires_at never decreases.
C8_ExpiresAtNeverDecreases == [][token_expire' >= token_expire]_vars

\* the messages on_message of session s received, in order
receivedFrom(s) ==
    SelectSeq(received, LAMBDA r : r.from = s)

\* the publish() calls on the local client that relay a cloud message
relayedToPrivate ==
    SelectSeq(private_published,
              LAMBDA p : p.topic \in {command_out(m) : m \in mowers})

\* C9: every message the cloud session received was published exactly once
\* on the local session: same topic, same payload bytes, the received
\* message's quality of service, retained.
C9_CloudToLocalRelayFidelity ==
    /\ Len(relayedToPrivate) = Len(receivedFrom("cloud"))
    /\ \A i \in 1..Len(relayedToPrivate) :
         relayedToPrivate[i] =
             [topic |-> receivedFrom("cloud")[i].msg.topic,
              payload |-> receivedFrom("cloud")[i].msg.payload,
              qos |-> receivedFrom("cloud")[i].msg.qos,
              retain |-> TRUE]

\* the publish() calls on the cloud client that follow main()'s status polls
relayedToCloud ==
    SubSeq(cloud_published, Len(polls) + 1, Len(cloud_published))

\* C10: every message the local session received was published exactly once
\* on the cloud session: same topic, same payload bytes, same retained
\* flag, at the configured quality of service.
C10_LocalToCloudRelayFidelity ==
    /\ Len(relayedToCloud) = Len(receivedFrom("private"))
    /\ \A i \in 1..Len(relayedToCloud) :
         relayedToCloud[i] =
             [topic |-> receivedFrom("private")[i].msg.topic,
              payload |-> receivedFrom("private")[i].msg.payload,
              qos |-> QOS_FLAG,
              retain |-> receivedFrom("private")[i].msg.retain]

\* C11: handling a received message never ends a network thread: after
\* either on_message ran, whatever the payload, both network threads are
\* where they were.
C11_RelayFailureIsolated ==
    [][Len(received') > Len(received)
         => (pc'["net"] = pc["net"] /\ privateLoop' = privateLoop)]_vars

\* position in private_published of the first "online"
firstOnline ==
    CHOOSE i \in 1..Len(private_published) :
        /\ private_published[i].topic = availability_topic
        /\ \A j \in 1..(i - 1) :
             private_published[j].topic # availability_topic

\* C12: send_discovery() ran once if the local session ever connected, and
\* never otherwise; it ran on the first connect, for every mower of the
\* fleet, and no mower's config was published a second time.
C12_DiscoverySingleFire ==
    /\ discoveries = (IF localConnects >= 1 THEN 1 ELSE 0)
    /\ \A m \in mowers :
         Cardinality({i \in 1..Len(private_published) :
                         private_published[i].topic = discovery_topic(m)})
             = discoveries
    /\ localConnects >= 1 =>
         \A m \in mowers :
             private_published[firstOnline + m].topic = discovery_topic(m)

\* C12: the local session connected twice and discovery ran once
C12_ReconnectedAfterDiscovery ==
    localConnects = 2 /\ discoveries = 1 /\ privateState = "Connected"

\* C13: startup keeps the order authenticate, fleet, cloud connection,
\* network loops, supervisor, status polls: each stage is only reached
\* with the stages before it done, and the polls are one per mower.
C13_StartupOrder ==
    /\ mowers # {} => gen >= 1
    /\ client => mowers # {}
    /\ privateLoop # "off" => client
    /\ pc["sup"] # "none" => privateLoop # "off"
    /\ cloud_published # <<>> => pc["sup"] # "none"
    /\ pc["main"] \in {"m_monitor", "s_join", "s_private_disc"}
         => cloud_published = polls

\* C14: when stop() has disconnected the cloud session the cancellation
\* flag is set and the supervisor thread has ended; from then on no token
\* exchange completes and no CONNECT is sent; and the process exits with
\* both sessions disconnected.
C14_ShutdownOrder ==
    [][/\ pc'["main"] = "s_private_disc"
            => (token_refresh_stop' /\ pc'["sup"] \in {"none", "exited", "dead"})
       /\ pc["main"] = "s_private_disc"
            => (cloudState' = "Disconnected" /\ issued' = issued)
       /\ proc' = "exit0"
            => (cloudState' = "Disconnected" /\ privateState' = "Disconnected")
      ]_vars

\* a termination signal was delivered to the process
Signalled ==
    proc = "killed" \/ pc["main"] \in {"s_join", "s_private_disc"}

\* the shutdown sequence is complete
ShutdownComplete ==
    /\ proc = "exit0"
    /\ token_refresh_stop /\ pc["sup"] \in {"none", "exited", "dead"}
    /\ cloudState = "Disconnected" /\ privateState = "Disconnected"
    /\ private_published # <<>>
    /\ private_published[Len(private_published)].payload = offline

\* C15: a termination signal, whenever delivered, leads to the complete
\* shutdown sequence and exit status 0.
C15_SignalLeadsToGracefulExit == Signalled ~> ShutdownComplete

\* C16: a CONNACK with a non-zero result, from either broker, ends the
\* process with a failure status: the step in which on_connect raises
\* leaves the process exited with status 1.
C16_ConnectFailureIsFatal ==
    [][((cloudState = "Connecting" /\ pc["net"] = "loop"
            /\ pc'["net"] = "dead")
        \/ (privateState = "Connecting" /\ privateLoop = "running"
            /\ privateLoop' = "dead"))
       => proc' = "exit1"]_vars

\* C17: while the local session is connected the retained availability
\* value is "online"; once it has been connected and is so no longer, for
\* a lost connection, a stop() or the end of the process, the value is
\* "offline"; and stop() has published "offline", retained, as its last
\* publication when the process exits.
C17_AvailabilityFollowsSession ==
    /\ privateState = "Connected" => retained = online
    /\ (localConnects >= 1 /\ privateState # "Connected")
         => retained = offline
    /\ proc = "exit0" =>
         private_published[Len(private_published)] =
             [topic |-> availability_topic, payload |-> offline,
              qos |-> QOS_FLAG, retain |-> TRUE]

\* C17: stop() ended a process whose local session had been connected
C17_StoppedAfterOnline ==
    proc = "exit0" /\ localConnects >= 1 /\ retained = offline

\* the delay before the n-th retry as stated: min(3 * 2^(n-1), 120) s, in
\* half seconds
statedDelay(n) ==
    LET val == BACKOFF_FACTOR * pow2(n - 1)
    IN  2 * (IF val <= MAX_BACKOFF THEN val ELSE MAX_BACKOFF)

RECURSIVE statedDelays(_)
statedDelays(n) == IF n = 0 THEN 0 ELSE statedDelay(n) + statedDelays(n - 1)

\* C18: when the endpoint answers the first k attempts (k < 5) with 504
\* and the next one with success, request() has slept the delays stated
\* for retries 1..k: 3, 6, 12, 24 seconds.
C18_BackoffDelays ==
    (reqOut.kind # "none" /\ ~reqIn.exc /\ ~raise_for_status(reqIn.status)
        /\ reqIn.timeouts < NUM_RETRIES)
      => reqOut.slept = statedDelays(reqIn.timeouts)

\* the device list and the catalog get_mowers() was given
devicesIn == fleetIn.devices.json
catalogIn == fleetIn.catalog.json

\* C19: whenever get_mowers() returns, it returns the devices of the
\* directory endpoint, as many and in the same order; a device whose
\* product_id is in no catalog entry has model None, and any other device
\* has the code and name of the first catalog entry with its product_id.
C19_FleetKeepsEveryDevice ==
    fleetOut.kind = "return" =>
        /\ Len(fleetOut.value) = Len(devicesIn)
        /\ \A i \in 1..Len(devicesIn) :
             LET out == fleetOut.value[i]
                 hits == {j \in 1..Len(catalogIn) :
                             catalogIn[j]["id"] = devicesIn[i].product_id}
             IN  /\ out.serial_number = devicesIn[i].serial_number
                 /\ out.product_id = devicesIn[i].product_id
                 /\ hits = {} => out.model = NoModel
                 /\ hits # {} =>
                      /\ out.model # NoModel
                      /\ \E j \in hits :
                           /\ \A l \in hits : j <= l
                           /\ out.model[1].code = catalogIn[j].code
                           /\ out.model[1].friendly_name =
                                  <<catalogIn[j].default_name,
                                    catalogIn[j].meters, " ",
                                    catalogIn[j].product_year>>

\* C19: get_mowers() returned two devices, the first without a catalog
\* entry and the second with one
C19_PartialFleetReturned ==
    /\ fleetOut.kind = "return"
    /\ Len(fleetOut.value) = 2
    /\ fleetOut.value[1].model = NoModel
    /\ fleetOut.value[2].model # NoModel

\* thread t is inside token_refresh()
InRefresh(t) ==
    pc[t] \in {"gt_request", "gt_157", "gt_159", "tr_setpw", "tr_reconnect",
               "tr_except"}

\* C20: the supervisor thread and the network thread are never inside
\* token_refresh() at the same time.
C20_RefreshSerialized == ~(InRefresh("sup") /\ InRefresh("net"))

\* thread t is about to read TokenState: set_username_pw() deriving the
\* credential from access_token (lines 263, 346), the expiry check of the
\* supervisor (line 338) or of on_disconnect (line 270, once rc is 7), or
\* get_token(update=True) taking refresh_token into its request (line 151)
ReadsTokenState(t) ==
    \/ t = "main" /\ pc[t] = "m_client"
    \/ t \in Refreshers /\ pc[t] \in {"gt_request", "tr_setpw"}
    \/ t = "sup" /\ pc[t] = "check"
    \/ t = "net" /\ pc[t] = "d_check" /\ rc = RC_CRED

\* the three fields come from one token response
TokenStateWhole ==
    /\ access_token = refresh_token
    /\ expire_from = access_token

\* C21: TokenState is never observed torn: whenever a thread is about to
\* read TokenState (to derive the credential, to check the expiry, or to
\* build a refresh request), access_token, refresh_token and expires_at
\* come from the same token response.
C21_TokenStateNeverTorn ==
    proc = "running" =>
        \A t \in Threads : ReadsTokenState(t) => TokenStateWhole

\* the supervisor threads alive: the one token_refresh_thread refers to,
\* and those it referred to before
supervisor_loops == unreferenced + (IF supervisor_alive THEN 1 ELSE 0)

\* C22: supervisor single instance: after any sequence of start and stop
\* calls at most one supervisor loop is alive, a start call made while a
\* loop runs starts no thread, and no supervisor is started before a
\* get_token() has succeeded.
C22_SupervisorSingleInstance ==
    /\ supervisor_loops <= 1
    /\ Len(starts) > 0 => gen >= 1

\* C22 witness: a start call made while the loop ran started nothing, a
\* start call after a stop started a new loop, and that loop is alive
C22_RestartedOnce ==
    /\ Len(starts) = 3
    /\ starts[1] /\ ~starts[2] /\ starts[3]
    /\ supervisor_alive /\ ~token_refresh_stop

\* C23: on a disconnect event the cloud session starts a token refresh and
\* reconnect cycle if and only if the reason code is 7 and the token is
\* expired; on every other disconnect on_disconnect requests no token and
\* sends no CONNECT, and the transport's automatic reconnect follows.
C23_DisconnectHandling ==
    [][/\ (pc["net"] = "d_check" /\ pc'["net"] # "d_check")
          => IF rc = RC_CRED /\ now >= token_expire
             THEN pc'["net"] = "gt_request"
             ELSE /\ pc'["net"] = "d_return"
                  /\ issued' = issued /\ attempt' = attempt
                  /\ cloudState' = cloudState
       /\ (pc'["net"] = "gt_request" /\ pc["net"] # "gt_request")
          => (pc["net"] = "d_check" /\ rc = RC_CRED /\ now >= token_expire)
       /\ (pc["net"] = "d_return" /\ pc'["net"] # "d_return" /\ ~disconnecting)
          => (pc'["net"] = "loop" /\ cloudState' = "Connecting"
              /\ issued' = issued)]_vars

\* C23 witness: after a disconnect with an expired token the network
\* thread is inside the refresh cycle, about to reconnect
C23_RefreshAfterCredentialLoss ==
    /\ discs >= 1 /\ pc["net"] = "tr_reconnect"
    /\ now >= pre["net"][3]

\* C24: whenever a session is connected it has subscribed, on that
\* connection, to the topic of every mower of the fleet at QOS_FLAG: the
\* cloud session to each command_out, the local session to each command_in.
C24_SubscribedOnEveryConnect ==
    /\ cloudState = "Connected" =>
         \A m \in mowers :
           [topic |-> command_out(m), qos |-> QOS_FLAG] \in cloud_subs
    /\ privateState = "Connected" =>
         \A m \in mowers :
           [topic |-> command_in(m), qos |-> QOS_FLAG] \in private_subs

\* C24 witness: both sessions lost a connection and are connected again
C24_BothReconnected ==
    /\ discs >= 1 /\ cloudState = "Connected"
    /\ localConnects >= 2 /\ privateState = "Connected"
    /\ mowers # {}

\* the topics of a set of subscriptions
topics_of(subs) == {s.topic : s \in subs}

\* C26: no relay echo: the cloud session subscribes to command_out topics
\* only and the local session to command_in topics only, nothing published
\* on a broker is on a topic the bridge's session with that broker is
\* subscribed to, and each received message leads to at most one publish on
\* the other broker.
C26_NoRelayEcho ==
    /\ topics_of(cloud_subs) \subseteq {command_out(m) : m \in mowers}
    /\ topics_of(private_subs) \subseteq {command_in(m) : m \in mowers}
    /\ \A i \in 1..Len(private_published) :
         private_published[i].topic \notin topics_of(private_subs)
    /\ \A i \in 1..Len(cloud_published) :
         cloud_published[i].topic \notin topics_of(cloud_subs)
    /\ Len(relayedToPrivate) <= Len(receivedFrom("cloud"))
    /\ Len(relayedToCloud) <= Len(receivedFrom("private"))

\* C26 witness: a message was relayed in each direction and both sessions
\* are still connected and subscribed
C26_RelayedBothWays ==
    /\ Len(relayedToPrivate) >= 1 /\ Len(relayedToCloud) >= 1
    /\ cloudState = "Connected" /\ privateState = "Connected"
    /\ cloud_subs # {} /\ private_subs # {}

\* the log entries of broker b, in order
entries_of(b) == SelectSeq(monitor_log, LAMBDA e : e.broker = b)

\* the connectivity the log reported last for broker b
last_logged(b) ==
    IF entries_of(b) = <<>> THEN "None"
    ELSE entries_of(b)[Len(entries_of(b))].connected

\* C25: the connectivity monitor logs only on edge transitions: a poll adds
\* an entry for a broker exactly when the polled connectivity differs from
\* the value recorded for it, the entry reports the polled value and that
\* value becomes the recorded one; so after every poll the recorded value
\* is the polled one, and two consecutive entries of a broker never report
\* the same connectivity.
C25_MonitorLogsEdgesOnly ==
    /\ [](\A b \in Brokers :
            /\ last_state_client_connected[b] = connections[b]
            /\ last_state_client_connected[b] = last_logged(b)
            /\ \A i \in 1..(Len(entries_of(b)) - 1) :
                 entries_of(b)[i].connected # entries_of(b)[i + 1].connected)
    /\ [][\A b \in Brokers :
            /\ Len(entries_of(b))' \in {Len(entries_of(b)), Len(entries_of(b)) + 1}
            /\ (Len(entries_of(b))' = Len(entries_of(b)) + 1)
                 <=> (connections'[b] # last_state_client_connected[b])
            /\ last_logged(b)' = connections'[b]]_vars

\* C25 witness: the monitor has logged a broker up, down and up again, and
\* the other broker up
C25_LoggedEdges ==
    /\ Len(entries_of("private")) >= 4
    /\ Len(entries_of("cloud")) >= 2
    /\ connections = [b \in Brokers |-> "True"]

====
